---- MODULE Spec2Model ----
(***************************************************************************)
(* ReadOnlyStorage (src/cache/readonly.rs): a Storage that wraps a shared  *)
(* Arc<dyn Storage> and forwards get, location, current_size and max_size  *)
(* to it, while put always fails with ReadOnlyError and check always       *)
(* answers CacheMode::ReadOnly.                                            *)
(*                                                                         *)
(* The async fns are modelled poll by poll.  Calling one creates a future  *)
(* (pc = "start"); a poll runs the body up to its .await.  A forwarded     *)
(* body creates the inner future and polls it: the inner future either     *)
(* returns at once or stays pending until the backend wakes it, after      *)
(* which the next poll of the guard's future polls it again.               *)
(***************************************************************************)
EXTENDS Naturals, Sequences, FiniteSets

\* ------------------------------------------------------------ bounds
NumKeys == 2

Callers == {"c1", "c2"}
Guards == {"g1", "g2"}
Keys == 1 .. NumKeys
NoKey == 0
Entries == {"e1", "e2"}
Absent == "absent"
InnerErrors == {"IoError", "Timeout"}

\* Sizes an inner backend that reports sizes answers with.
EntrySize == 250
MaxCacheSize == 1000

VARIABLES
    store,   \* the inner backend's entries: Keys -> Entries or Absent
    mode,    \* the inner backend's own CacheMode
    sized,   \* whether the inner backend reports current_size / max_size
    call     \* per caller: the guard call it has in progress

inner == <<store, mode, sized>>
vars == <<store, mode, sized, call>>

\* ------------------------------------------------------------ values
NoRet == <<>>
Pending == <<"Pending">>
Ok(v) == <<"Ok">> \o v
Err(e) == <<"Err", e>>

\* ReadOnlyError, displayed as "Cannot write to read-only storage".
ReadOnlyError == "Cannot write to read-only storage"

EmptyStore == [k \in Keys |-> Absent]

Idle ==
    [pc |-> "idle", guard |-> "none", op |-> "none", key |-> NoKey,
     entry |-> "none", fut |-> "none", made |-> <<>>, iret |-> NoRet,
     ret |-> NoRet]

\* ------------------------------------------------------------ the inner Storage
\* A guard that holds a clone of the backend made when the backend was
\* still empty, instead of the shared Arc (guard g2 only).
Self0_cloned(g) ==
    IF g = "g2"
    THEN [store |-> EmptyStore, mode |-> mode, sized |-> sized]
    ELSE [store |-> store, mode |-> mode, sized |-> sized]

\* The state of the backend behind a guard's Arc: every guard derefs the
\* same shared backend.
Self0(g) == [store |-> store, mode |-> mode, sized |-> sized]

InnerGet(b, k) ==
    IF b.store[k] = Absent THEN Ok(<<"Miss">>) ELSE Ok(<<"Hit", b.store[k]>>)

InnerCurrentSize(b) ==
    IF b.sized
    THEN Ok(<<"Some", EntrySize * Cardinality({k \in Keys : b.store[k] # Absent})>>)
    ELSE Ok(<<"None">>)

InnerMaxSize(b) ==
    IF b.sized THEN Ok(<<"Some", MaxCacheSize>>) ELSE Ok(<<"None">>)

InnerCheck(b) == Ok(<<b.mode>>)

InnerLocation(b) == IF b.sized THEN "Local disk" ELSE "S3, bucket"

InnerAnswer(b, iop, k) ==
    CASE iop = "get" -> InnerGet(b, k)
      [] iop = "current_size" -> InnerCurrentSize(b)
      [] iop = "max_size" -> InnerMaxSize(b)
      [] iop = "check" -> InnerCheck(b)
      [] OTHER -> Ok(<<"Duration">>)

\* What a poll of an inner future that returns can return: the backend's
\* answer in the current state, or one of its failures.
InnerReturns(b, iop, k) == {InnerAnswer(b, iop, k)} \cup {Err(e) : e \in InnerErrors}

\* ------------------------------------------------------------ callers
\* A caller creates the future of one async operation of a guard.
Invoke(c) ==
    /\ call[c].pc = "idle"
    /\ \E g \in Guards, op \in {"get", "put", "check", "current_size", "max_size"} :
       \E k \in (IF op \in {"get", "put"} THEN Keys ELSE {NoKey}) :
       \E e \in (IF op = "put" THEN Entries ELSE {"none"}) :
          call' = [call EXCEPT ![c] =
                      [Idle EXCEPT !.pc = "start", !.guard = g, !.op = op,
                                   !.key = k, !.entry = e]]
    /\ UNCHANGED inner

\* The caller takes the result and drops the future.
Ack(c) ==
    /\ call[c].pc = "done"
    /\ call' = [call EXCEPT ![c] = Idle]
    /\ UNCHANGED inner

\* ------------------------------------------------------------ .await of a forwarded call
\* One poll of `self.0.<iop>(k).await` for the call record r, the inner
\* future's poll answering out (Pending or a returned result).
Await(r, iop, k, out) ==
    [r EXCEPT
        !.made = IF r.pc = "start" THEN <<[op |-> iop, key |-> k]>> ELSE r.made,
        !.fut = IF out = Pending THEN "pending" ELSE "returned",
        !.iret = IF out = Pending THEN NoRet ELSE out,
        !.pc = IF out = Pending THEN "awaiting" ELSE "done",
        !.ret = IF out = Pending THEN NoRet ELSE out]

\* The inner futures a poll of the guard's future can poll to a result: a
\* first poll (it may return at once) or a poll after the backend's wake.
Pollable(r) == r.pc = "start" \/ (r.pc = "awaiting" /\ r.fut = "woken")

PollOutcomes(r, iop, k) ==
    InnerReturns(Self0(r.guard), iop, k) \cup (IF r.pc = "start" THEN {Pending} ELSE {})

\* ------------------------------------------------------------ variants of the operations
\* Each is one of the operations below with one plausible slip; every
\* property at the end fails for one of them.

\* get that turns an inner failure into a miss.
get_swallowing(c) ==
    /\ call[c].op = "get"
    /\ Pollable(call[c])
    /\ \E out \in PollOutcomes(call[c], "get", call[c].key) :
          call' = [call EXCEPT ![c] =
                      [Await(call[c], "get", call[c].key, out) EXCEPT
                          !.ret = IF out # Pending /\ out[1] = "Err"
                                  THEN Ok(<<"Miss">>) ELSE @]]
    /\ UNCHANGED inner

\* get that calls the inner get again when it fails.
get_retrying(c) ==
    /\ call[c].op = "get"
    /\ Pollable(call[c])
    /\ \E out \in PollOutcomes(call[c], "get", call[c].key) :
          call' = [call EXCEPT ![c] =
                      IF out # Pending /\ out[1] = "Err" /\ Len(call[c].made) < 2
                      THEN [call[c] EXCEPT
                               !.made = Append(call[c].made,
                                               [op |-> "get", key |-> call[c].key]),
                               !.fut = "pending", !.pc = "awaiting"]
                      ELSE Await(call[c], "get", call[c].key, out)]
    /\ UNCHANGED inner

\* get that holds a per-guard lock across its .await.
get_locking(c) ==
    /\ call[c].op = "get"
    /\ Pollable(call[c])
    /\ \A d \in Callers \ {c} :
          ~(call[d].op = "get" /\ call[d].guard = call[c].guard
             /\ call[d].pc = "awaiting")
    /\ \E out \in PollOutcomes(call[c], "get", call[c].key) :
          call' = [call EXCEPT ![c] = Await(call[c], "get", call[c].key, out)]
    /\ UNCHANGED inner

\* put that forwards to a backend that is itself writable.
put_if_writable(c) ==
    /\ call[c].op = "put"
    /\ call[c].pc = "start"
    /\ IF mode = "ReadWrite"
       THEN /\ call' = [call EXCEPT ![c].pc = "done",
                                     ![c].made = <<[op |-> "put", key |-> call[c].key]>>,
                                     ![c].ret = Ok(<<"Duration">>)]
            /\ store' = [store EXCEPT ![call[c].key] = call[c].entry]
       ELSE /\ call' = [call EXCEPT ![c].pc = "done", ![c].ret = Err(ReadOnlyError)]
            /\ store' = store
    /\ UNCHANGED <<mode, sized>>

\* put that writes through and only then reports the read-only error.
put_writing_through(c) ==
    /\ call[c].op = "put"
    /\ call[c].pc = "start"
    /\ call' = [call EXCEPT ![c].pc = "done", ![c].ret = Err(ReadOnlyError)]
    /\ store' = [store EXCEPT ![call[c].key] = call[c].entry]
    /\ UNCHANGED <<mode, sized>>

\* put that first awaits the inner check.
put_after_inner_check(c) ==
    /\ call[c].op = "put"
    /\ Pollable(call[c])
    /\ \E out \in PollOutcomes(call[c], "check", NoKey) :
          call' = [call EXCEPT ![c] =
                      [Await(call[c], "check", NoKey, out) EXCEPT
                          !.ret = IF out = Pending THEN NoRet ELSE Err(ReadOnlyError)]]
    /\ UNCHANGED inner

\* check that forwards to the inner check.
check_forwarding(c) ==
    /\ call[c].op = "check"
    /\ Pollable(call[c])
    /\ \E out \in PollOutcomes(call[c], "check", NoKey) :
          call' = [call EXCEPT ![c] = Await(call[c], "check", NoKey, out)]
    /\ UNCHANGED inner

\* location that decorates the inner descriptor.
location_decorated(c) ==
    /\ call[c].pc = "idle"
    /\ \E g \in Guards :
          call' = [call EXCEPT ![c] =
                      [Idle EXCEPT !.pc = "done", !.guard = g, !.op = "location",
                                   !.ret = <<"Loc", "ReadOnly", InnerLocation(Self0(g))>>]]
    /\ UNCHANGED inner

\* max_size that forwards to the inner current_size.
max_size_swapped(c) ==
    /\ call[c].op = "max_size"
    /\ Pollable(call[c])
    /\ \E out \in PollOutcomes(call[c], "current_size", NoKey) :
          call' = [call EXCEPT ![c] = Await(call[c], "current_size", NoKey, out)]
    /\ UNCHANGED inner

\* ------------------------------------------------------------ ReadOnlyStorage
get(c) ==
    /\ call[c].op = "get"
    /\ Pollable(call[c])
    /\ \E out \in PollOutcomes(call[c], "get", call[c].key) :
          call' = [call EXCEPT ![c] = Await(call[c], "get", call[c].key, out)]
    /\ UNCHANGED inner

put(c) ==
    /\ call[c].op = "put"
    /\ call[c].pc = "start"
    /\ call' = [call EXCEPT ![c].pc = "done", ![c].ret = Err(ReadOnlyError)]
    /\ UNCHANGED inner

check(c) ==
    /\ call[c].op = "check"
    /\ call[c].pc = "start"
    /\ call' = [call EXCEPT ![c].pc = "done", ![c].ret = Ok(<<"ReadOnly">>)]
    /\ UNCHANGED inner

location(c) ==
    /\ call[c].pc = "idle"
    /\ \E g \in Guards :
          call' = [call EXCEPT ![c] =
                      [Idle EXCEPT !.pc = "done", !.guard = g, !.op = "location",
                                   !.ret = <<"Loc", InnerLocation(Self0(g))>>]]
    /\ UNCHANGED inner

current_size(c) ==
    /\ call[c].op = "current_size"
    /\ Pollable(call[c])
    /\ \E out \in PollOutcomes(call[c], "current_size", NoKey) :
          call' = [call EXCEPT ![c] = Await(call[c], "current_size", NoKey, out)]
    /\ UNCHANGED inner

max_size(c) ==
    /\ call[c].op = "max_size"
    /\ Pollable(call[c])
    /\ \E out \in PollOutcomes(call[c], "max_size", NoKey) :
          call' = [call EXCEPT ![c] = Await(call[c], "max_size", NoKey, out)]
    /\ UNCHANGED inner

\* ------------------------------------------------------------ the backend and its other holders
\* The backend finishes the I/O of a pending inner future and wakes it.
InnerWake(c) ==
    /\ call[c].fut = "pending"
    /\ call' = [call EXCEPT ![c].fut = "woken"]
    /\ UNCHANGED inner

\* Another holder of the Arc writes to the backend directly.
DirectPut ==
    /\ mode = "ReadWrite"
    /\ \E k \in Keys, e \in Entries :
          /\ store[k] # e
          /\ store' = [store EXCEPT ![k] = e]
    /\ UNCHANGED <<mode, sized, call>>

\* The backend evicts an entry.
Evict ==
    /\ \E k \in Keys :
          /\ store[k] # Absent
          /\ store' = [store EXCEPT ![k] = Absent]
    /\ UNCHANGED <<mode, sized, call>>

\* ------------------------------------------------------------ specification
Init ==
    /\ store = EmptyStore
    /\ mode \in {"ReadWrite", "ReadOnly"}
    /\ sized \in BOOLEAN
    /\ call = [c \in Callers |-> Idle]

Next ==
    \/ \E c \in Callers : Invoke(c)
    \/ \E c \in Callers : Ack(c)
    \/ \E c \in Callers : get(c)
    \/ \E c \in Callers : put(c)
    \/ \E c \in Callers : check(c)
    \/ \E c \in Callers : location(c)
    \/ \E c \in Callers : current_size(c)
    \/ \E c \in Callers : max_size(c)
    \/ \E c \in Callers : InnerWake(c)
    \/ DirectPut
    \/ Evict

Spec == Init /\ [][Next]_vars

\* put and check are polled by whoever awaits them; nothing is assumed of
\* the backend or of the forwarded calls.
LiveSpec == Spec /\ \A c \in Callers : WF_vars(put(c)) /\ WF_vars(check(c))

\* ------------------------------------------------------------ properties
Forwarded == {"get", "current_size", "max_size"}

\* The guard call of caller c returns in this step.
Returns(c) == call[c].pc # "done" /\ call'[c].pc = "done"

\* The true backend, as its other holders see it.
Backend == [store |-> store, mode |-> mode, sized |-> sized]

\* The poll of caller c's future, whatever its operation.
Poll(c) == get(c) \/ put(c) \/ check(c) \/ current_size(c) \/ max_size(c)

\* C1: put through the guard always returns the read-only error, never Ok,
\* whatever the key, the entry and the backend, and makes no inner call.
C1_PutAlwaysReadOnlyError ==
    \A c \in Callers :
        call[c].op = "put" =>
            /\ call[c].pc \in {"start", "done"}
            /\ call[c].made = <<>>
            /\ call[c].fut = "none"
            /\ call[c].pc = "done" => call[c].ret = Err(ReadOnlyError)

\* A put of a new entry was rejected on a backend whose own put would succeed.
C1_Witness ==
    \E c \in Callers :
        /\ call[c].op = "put" /\ call[c].pc = "done"
        /\ call[c].ret = Err(ReadOnlyError)
        /\ mode = "ReadWrite"
        /\ store[call[c].key] # call[c].entry

\* C2: check through the guard always returns Ok(ReadOnly) and makes no
\* inner call, whatever the inner check would answer.
C2_CheckAlwaysReadOnly ==
    \A c \in Callers :
        call[c].op = "check" =>
            /\ call[c].pc \in {"start", "done"}
            /\ call[c].made = <<>>
            /\ call[c].fut = "none"
            /\ call[c].pc = "done" => call[c].ret = Ok(<<"ReadOnly">>)

\* check answered ReadOnly on a backend whose own check answers ReadWrite.
C2_Witness ==
    \E c \in Callers :
        /\ call[c].op = "check" /\ call[c].pc = "done"
        /\ call[c].ret = Ok(<<"ReadOnly">>)
        /\ InnerCheck(Backend) = Ok(<<"ReadWrite">>)

\* C3: when get(k) through the guard returns, it returns what the inner
\* get(k) returned to it, which is a result the inner get(k) has in that
\* state: the hit, the miss or an inner failure.
C3_GetReturnsInnerResult ==
    [][\A c \in Callers :
          (call[c].op = "get" /\ Returns(c)) =>
              /\ call'[c].ret = call'[c].iret
              /\ call'[c].ret \in InnerReturns(Self0(call[c].guard), "get", call[c].key)]_vars

\* One get returned a hit and another a miss.
C3_Witness ==
    \E c, d \in Callers :
        /\ call[c].op = "get" /\ call[c].pc = "done"
        /\ call[c].ret = Ok(<<"Hit", "e2">>)
        /\ call[d].op = "get" /\ call[d].pc = "done"
        /\ call[d].ret = Ok(<<"Miss">>)

\* C4: no step of a guard call changes the backend's entries or
\* configuration, and no put through the guard ever returns anything but
\* the read-only error.
C4_GuardNeverMutatesInner ==
    [][call' # call =>
          /\ inner' = inner
          /\ \A c \in Callers :
                call'[c].op = "put" => call'[c].ret \in {NoRet, Err(ReadOnlyError)}]_vars

\* Two puts were rejected on a writable backend that holds other entries.
C4_Witness ==
    /\ mode = "ReadWrite"
    /\ \A c \in Callers :
          /\ call[c].op = "put" /\ call[c].pc = "done"
          /\ store[call[c].key] \notin {Absent, call[c].entry}

\* C5: current_size and max_size through the guard each return what the
\* inner operation of the same name returned, which is a result it has in
\* that state: Some(n), None or an inner failure.
C5_SizesReturnInnerResult ==
    [][\A c \in Callers :
          (call[c].op \in {"current_size", "max_size"} /\ Returns(c)) =>
              /\ call'[c].ret = call'[c].iret
              /\ call'[c].made = <<[op |-> call[c].op, key |-> NoKey]>>
              /\ call'[c].ret \in InnerReturns(Self0(call[c].guard), call[c].op, NoKey)]_vars

\* current_size returned 500 and max_size 1000.
C5_Witness ==
    \E c, d \in Callers :
        /\ call[c].op = "current_size" /\ call[c].pc = "done"
        /\ call[c].ret = Ok(<<"Some", 500>>)
        /\ call[d].op = "max_size" /\ call[d].pc = "done"
        /\ call[d].ret = Ok(<<"Some", 1000>>)

\* C6: location through the guard is the inner location, unchanged, and is
\* never a failure.
C6_LocationIsInnerLocation ==
    \A c \in Callers :
        (call[c].op = "location" /\ call[c].pc = "done") =>
            call[c].ret = <<"Loc", InnerLocation(Backend)>>

\* location was answered through two different guards.
C6_Witness ==
    \E c, d \in Callers :
        /\ call[c].op = "location" /\ call[c].pc = "done"
        /\ call[d].op = "location" /\ call[d].pc = "done"
        /\ call[c].guard # call[d].guard

\* C7: a forwarded call makes exactly one inner call, of the same
\* operation and key, and an inner failure is returned as it is.
C7_FailuresPassThrough ==
    \A c \in Callers :
        call[c].op \in Forwarded =>
            /\ call[c].pc = "start" => call[c].made = <<>>
            /\ call[c].pc \in {"awaiting", "done"} =>
                  call[c].made = <<[op |-> call[c].op, key |-> call[c].key]>>
            /\ (call[c].pc = "done" /\ call[c].iret[1] = "Err") =>
                  call[c].ret = call[c].iret

\* Inner failures of two kinds were returned by two forwarded operations.
C7_Witness ==
    \E c, d \in Callers :
        /\ call[c].op = "get" /\ call[c].pc = "done"
        /\ call[c].ret = Err("Timeout")
        /\ call[d].op = "current_size" /\ call[d].pc = "done"
        /\ call[d].ret = Err("IoError")

\* C8: every put that was called returns the read-only error and every
\* check that was called returns ReadOnly, with nothing assumed of the
\* backend.
C8_PutAndCheckComplete ==
    \A c \in Callers :
        /\ (call[c].op = "put" /\ call[c].pc = "start")
              ~> (call[c].op = "put" /\ call[c].pc = "done"
                  /\ call[c].ret = Err(ReadOnlyError))
        /\ (call[c].op = "check" /\ call[c].pc = "start")
              ~> (call[c].op = "check" /\ call[c].pc = "done"
                  /\ call[c].ret = Ok(<<"ReadOnly">>))

\* A put returned while a forwarded call on the same guard is still
\* pending in the backend.
C8_Witness ==
    \E c, d \in Callers :
        /\ call[c].op = "put" /\ call[c].pc = "done"
        /\ call[d].op \in Forwarded /\ call[d].fut = "pending"
        /\ call[c].guard = call[d].guard

\* C9: a forwarded call is pending exactly while its inner call has not
\* returned, and no call in progress keeps another caller from calling the
\* guard or from having its own call polled.
C9_NoSynchronization ==
    \A c \in Callers :
        /\ call[c].op \in Forwarded =>
              /\ call[c].pc = "awaiting" <=> call[c].fut \in {"pending", "woken"}
              /\ call[c].pc = "done" <=> call[c].fut = "returned"
        /\ call[c].pc = "idle" => ENABLED Invoke(c)
        /\ Pollable(call[c]) => ENABLED Poll(c)

\* One get waits for the backend while another get on the same guard,
\* called later, has already returned.
C9_Witness ==
    \E c, d \in Callers :
        /\ c # d
        /\ call[c].guard = call[d].guard
        /\ call[c].op = "get" /\ call[c].fut = "pending"
        /\ call[d].op = "get" /\ call[d].pc = "done"

\* C10: a get or current_size that returns a value through any guard
\* returns the shared backend's answer at that moment, so what another
\* holder wrote is seen, and put through a guard still fails.
C10_GuardsShareBackend ==
    [][\A c \in Callers :
          /\ (call[c].op \in {"get", "current_size"} /\ Returns(c)
              /\ call'[c].ret[1] = "Ok") =>
                 call'[c].ret = InnerAnswer(Backend, call[c].op, call[c].key)
          /\ (call[c].op = "put" /\ Returns(c)) =>
                 call'[c].ret = Err(ReadOnlyError)]_vars

\* After a direct write of an entry, gets of its key through two different
\* guards both returned it.
C10_Witness ==
    \E c, d \in Callers : \E k \in Keys :
        /\ call[c].guard # call[d].guard
        /\ store[k] = "e1"
        /\ call[c].op = "get" /\ call[c].key = k /\ call[c].pc = "done"
        /\ call[c].ret = Ok(<<"Hit", "e1">>)
        /\ call[d].op = "get" /\ call[d].key = k /\ call[d].pc = "done"
        /\ call[d].ret = Ok(<<"Hit", "e1">>)

====
